---- MODULE Spec2Model ----
(***************************************************************************)
(* Blinded TxOut single-use seals of bp-core: the textual codec of         *)
(* BlindSeal (FromStr / Display), the closing Method registry and the     *)
(* values they work on, the conversions between seals and outpoints, the  *)
(* concealment of seals, the tapret commitment script and the channel id  *)
(* of a funding outpoint.                                                  *)
(*                                                                         *)
(* A text is a sequence of one-character strings.  A u64 is its 16 hex     *)
(* nibbles, most significant first; a u32 is two 16-bit limbs <<hi, lo>>;  *)
(* a Txid is its 32 bytes.  Option and Result values are records tagged    *)
(* "Some"/"None" and "Ok"/"Err".                                           *)
(***************************************************************************)
EXTENDS Integers, Sequences, FiniteSets, TLC

VARIABLES
    seal,   \* Option<BlindSeal>: the seal value at hand
    text,   \* the string at hand
    src,    \* where text comes from: "none", "to_string" or "input"
    res,    \* Option<Result<BlindSeal, ParseError>>: outcome of the last parse
    single, \* Option<BlindSeal<Txid>>: the seal at hand in its settled form
    arg,    \* Option: the value a conversion is applied to
    out     \* Option: the last conversion, [op, val]

vars == <<seal, text, src, res, single, arg, out>>

----------------------------------------------------------------------------
(* Option and Result *)

None == [tag |-> "None"]
Some(v) == [tag |-> "Some", val |-> v]
Ok(v) == [tag |-> "Ok", val |-> v]
Err(e) == [tag |-> "Err", err |-> e]

----------------------------------------------------------------------------
(* Characters and strings *)

LowerChars == <<"a", "b", "c", "d", "e", "f", "g", "h", "i", "j", "k", "l", "m",
                "n", "o", "p", "q", "r", "s", "t", "u", "v", "w", "x", "y", "z">>
UpperChars == <<"A", "B", "C", "D", "E", "F", "G", "H", "I", "J", "K", "L", "M",
                "N", "O", "P", "Q", "R", "S", "T", "U", "V", "W", "X", "Y", "Z">>
HexLower == <<"0", "1", "2", "3", "4", "5", "6", "7", "8", "9",
              "a", "b", "c", "d", "e", "f">>
HexUpper == <<"0", "1", "2", "3", "4", "5", "6", "7", "8", "9",
              "A", "B", "C", "D", "E", "F">>

\* position of character c in the table t, 0 when absent
IndexOf(t, c) == IF \E i \in 1..Len(t) : t[i] = c
                 THEN CHOOSE i \in 1..Len(t) : t[i] = c
                 ELSE 0

\* char::to_digit: the value of c as a digit of the radix, -1 when it is none
to_digit(c, radix) ==
    LET lo == IndexOf(HexLower, c)
        up == IndexOf(HexUpper, c)
        d == IF lo > 0 THEN lo - 1 ELSE IF up > 0 THEN up - 1 ELSE -1
    IN IF d < radix THEN d ELSE -1

\* str::to_lowercase
to_lowercase(s) ==
    [i \in 1..Len(s) |-> IF IndexOf(UpperChars, s[i]) > 0
                         THEN LowerChars[IndexOf(UpperChars, s[i])]
                         ELSE s[i]]

\* str::starts_with
starts_with(s, p) == Len(s) >= Len(p) /\ SubSeq(s, 1, Len(p)) = p

\* str::contains for a single character
contains(s, c) == \E i \in 1..Len(s) : s[i] = c

\* str::trim_start_matches: removes the prefix p as often as it repeats
RECURSIVE trim_start_matches(_, _)
trim_start_matches(s, p) ==
    IF Len(p) > 0 /\ starts_with(s, p)
    THEN trim_start_matches(SubSeq(s, Len(p) + 1, Len(s)), p)
    ELSE s

\* str::split(&[':', '#'][..]): the fields between the separators, in order;
\* a string with n separators has n + 1 fields, empty ones included
split(s) ==
    LET P == {i \in 1..Len(s) : s[i] \in {":", "#"}}
        n == Cardinality(P)
        pos(k) == IF k = 0 THEN 0
                  ELSE IF k = n + 1 THEN Len(s) + 1
                  ELSE CHOOSE i \in P : Cardinality({j \in P : j < i}) = k - 1
    IN [k \in 1..(n + 1) |-> SubSeq(s, pos(k - 1) + 1, pos(k) - 1)]

\* Iterator::next called for the n-th time on a split
next(sp, n) == IF n <= Len(sp) THEN Some(sp[n]) ELSE None

Zeros(n) == [i \in 1..n |-> 0]

RECURSIVE StripZeros(_)
StripZeros(ds) == IF Len(ds) > 0 /\ ds[1] = 0 THEN StripZeros(Tail(ds)) ELSE ds

----------------------------------------------------------------------------
(* u64 values: 16 nibbles, most significant first *)

U64Nibbles == 16

\* u64::from_str_radix(src, 16): an optional '+', then at least one hex
\* digit, the value not above u64::MAX
from_str_radix(s, radix) ==
    LET digits == IF Len(s) > 0 /\ s[1] = "+" THEN Tail(s) ELSE s
        vals == [i \in 1..Len(digits) |-> to_digit(digits[i], radix)]
        sig == StripZeros(vals)
    IN IF Len(s) = 0 THEN Err("Empty")
       ELSE IF Len(digits) = 0 THEN Err("InvalidDigit")
       ELSE IF \E i \in 1..Len(vals) : vals[i] < 0 THEN Err("InvalidDigit")
       ELSE IF Len(sig) > U64Nibbles THEN Err("PosOverflow")
       ELSE Ok(Zeros(U64Nibbles - Len(sig)) \o sig)

\* a formatter that always writes the low 12 hex digits
FmtLowerHex_Fixed12(b) ==
    <<"0", "x">> \o [i \in 1..12 |-> HexLower[b[i + 4] + 1]]

\* a formatter without the zero padding, "{:#x}"
FmtLowerHex_NoPad(b) ==
    LET sig == StripZeros(b)
        ds == IF Len(sig) = 0 THEN <<0>> ELSE sig
    IN <<"0", "x">> \o [i \in 1..Len(ds) |-> HexLower[ds[i] + 1]]

FmtWidth == 10

\* format!("{:#010x}", b): "0x", then the lower-hex digits of b, zero-padded
\* on the left until the whole field is FmtWidth characters wide
FmtLowerHex(b) ==
    LET sig == StripZeros(b)
        ds == IF Len(sig) = 0 THEN <<0>> ELSE sig
        pad == Zeros(FmtWidth - 2 - Len(ds))
        all == pad \o ds
    IN <<"0", "x">> \o [i \in 1..Len(all) |-> HexLower[all[i] + 1]]

----------------------------------------------------------------------------
(* Vout: a u32 kept as two 16-bit limbs <<hi, lo>> *)

RECURSIVE VoutAccum(_, _, _)
VoutAccum(s, i, acc) ==
    IF i > Len(s) THEN Ok(acc)
    ELSE LET d == to_digit(s[i], 10)
             lo == acc[2] * 10 + d
             hi == acc[1] * 10 + (lo \div 65536)
         IN IF d < 0 THEN Err("InvalidDigit")
            ELSE IF hi >= 65536 THEN Err("PosOverflow")
            ELSE VoutAccum(s, i + 1, <<hi, lo % 65536>>)

\* Vout::from_str: a non-empty string of decimal digits whose value fits u32
Vout_from_str(s) == IF Len(s) = 0 THEN Err("Empty") ELSE VoutAccum(s, 1, <<0, 0>>)

\* Vout's Display: the decimal digits of the value, no padding
RECURSIVE Vout_to_string(_)
Vout_to_string(v) ==
    LET t == (v[1] % 10) * 65536 + v[2]
        q == <<v[1] \div 10, t \div 10>>
        d == <<HexLower[(t % 10) + 1]>>
    IN IF q = <<0, 0>> THEN d ELSE Vout_to_string(q) \o d

----------------------------------------------------------------------------
(* Txid: 32 bytes, written as 64 hex characters *)

TxidBytes == 32

\* Txid::from_str: exactly 64 hex characters
Txid_from_str(s) ==
    IF Len(s) = 2 * TxidBytes /\ \A i \in 1..Len(s) : to_digit(s[i], 16) >= 0
    THEN Ok([i \in 1..TxidBytes |->
                16 * to_digit(s[2 * i - 1], 16) + to_digit(s[2 * i], 16)])
    ELSE Err("Hex")

\* Txid::to_string: two lower-hex characters a byte
Txid_to_string(t) ==
    [i \in 1..(2 * Len(t)) |->
        IF i % 2 = 1 THEN HexLower[(t[(i + 1) \div 2] \div 16) + 1]
        ELSE HexLower[(t[i \div 2] % 16) + 1]]

\* TxPtr: the witness transaction, or an explicit txid
WitnessTx == [tag |-> "WitnessTx"]
TxPtrTxid(t) == [tag |-> "Txid", id |-> t]

\* SealTxid::txid for TxPtr
TxPtr_txid(p) == IF p.tag = "Txid" THEN Some(p.id) ELSE None

----------------------------------------------------------------------------
(* Method of DBC construction *)

Methods == {"OpretFirst", "TapretFirst"}

\* Display of Method
Method_to_string(m) ==
    IF m = "OpretFirst" THEN <<"o", "p", "r", "e", "t", "1", "s", "t">>
    ELSE <<"t", "a", "p", "r", "e", "t", "1", "s", "t">>

\* the error carries the text as given
MethodParseError(s) == s

\* a parser whose error carries the lowercased text
Method_from_str_Lowercased(s) ==
    IF to_lowercase(s) = Method_to_string("OpretFirst") THEN Ok("OpretFirst")
    ELSE IF to_lowercase(s) = Method_to_string("TapretFirst") THEN Ok("TapretFirst")
    ELSE Err(MethodParseError(to_lowercase(s)))

\* a parser that also takes a non-empty prefix of a method name
Method_from_str_Prefix(s) ==
    IF s # <<>> /\ starts_with(Method_to_string("OpretFirst"), to_lowercase(s))
    THEN Ok("OpretFirst")
    ELSE IF s # <<>> /\ starts_with(Method_to_string("TapretFirst"), to_lowercase(s))
    THEN Ok("TapretFirst")
    ELSE Err(MethodParseError(s))

\* Method::from_str
Method_from_str(s) ==
    IF to_lowercase(s) = Method_to_string("OpretFirst") THEN Ok("OpretFirst")
    ELSE IF to_lowercase(s) = Method_to_string("TapretFirst") THEN Ok("TapretFirst")
    ELSE Err(MethodParseError(s))

----------------------------------------------------------------------------
(* BlindSeal and its textual codec *)

BlindSeal(method, txid, vout, blinding) ==
    [method |-> method, txid |-> txid, vout |-> vout, blinding |-> blinding]

\* ParseError: every kind carries a text, empty except for WrongMethod
ParseError(kind) == [kind |-> kind, text |-> <<>>]
WrongMethod(e) == [kind |-> "WrongMethod", text |-> e]

\* the arm for a "~" txid field: the fields are parsed in the order the
\* struct literal lists them, the first failure is returned
WitnessArm(method, vout, blinding) ==
    LET m == Method_from_str(method)
        b == from_str_radix(trim_start_matches(blinding, <<"0", "x">>), 16)
        v == Vout_from_str(vout)
    IN IF m.tag = "Err" THEN Err(WrongMethod(m.err))
       ELSE IF b.tag = "Err" THEN Err(ParseError("WrongBlinding"))
       ELSE IF v.tag = "Err" THEN Err(ParseError("WrongVout"))
       ELSE Ok(BlindSeal(m.val, WitnessTx, v.val, b.val))

\* the arm with txid and vout parsed ahead of the blinding
TxidArm_TxidFirst(method, txid, vout, blinding) ==
    LET m == Method_from_str(method)
        b == from_str_radix(trim_start_matches(blinding, <<"0", "x">>), 16)
        t == Txid_from_str(txid)
        v == Vout_from_str(vout)
    IN IF m.tag = "Err" THEN Err(WrongMethod(m.err))
       ELSE IF t.tag = "Err" THEN Err(ParseError("WrongTxid"))
       ELSE IF v.tag = "Err" THEN Err(ParseError("WrongVout"))
       ELSE IF b.tag = "Err" THEN Err(ParseError("WrongBlinding"))
       ELSE Ok(BlindSeal(m.val, TxPtrTxid(t.val), v.val, b.val))

\* the arm with an unparsable vout taken as 0
TxidArm_VoutDefault(method, txid, vout, blinding) ==
    LET m == Method_from_str(method)
        b == from_str_radix(trim_start_matches(blinding, <<"0", "x">>), 16)
        t == Txid_from_str(txid)
        v == Vout_from_str(vout)
    IN IF m.tag = "Err" THEN Err(WrongMethod(m.err))
       ELSE IF b.tag = "Err" THEN Err(ParseError("WrongBlinding"))
       ELSE IF t.tag = "Err" THEN Err(ParseError("WrongTxid"))
       ELSE Ok(BlindSeal(m.val, TxPtrTxid(t.val),
                         IF v.tag = "Err" THEN <<0, 0>> ELSE v.val, b.val))

\* the arm for any other txid field
TxidArm(method, txid, vout, blinding) ==
    LET m == Method_from_str(method)
        b == from_str_radix(trim_start_matches(blinding, <<"0", "x">>), 16)
        t == Txid_from_str(txid)
        v == Vout_from_str(vout)
    IN IF m.tag = "Err" THEN Err(WrongMethod(m.err))
       ELSE IF b.tag = "Err" THEN Err(ParseError("WrongBlinding"))
       ELSE IF t.tag = "Err" THEN Err(ParseError("WrongTxid"))
       ELSE IF v.tag = "Err" THEN Err(ParseError("WrongVout"))
       ELSE Ok(BlindSeal(m.val, TxPtrTxid(t.val), v.val, b.val))

\* a first arm that forgets the "~" method
IsMethodRequired_EmptyOnly(f1) == f1 = Some(<<>>)

\* first arm: (Some("~"), ..) | (Some(""), ..)
IsMethodRequired(f1) == f1 = Some(<<"~">>) \/ f1 = Some(<<>>)

\* second arm: (Some(_), Some(""), ..)
IsTxidRequired(f1, f2) == f1 # None /\ f2 = Some(<<>>)

\* a third arm without its guard
IsBlindingRequired_NoGuard(s, f1, f2, f3) == f1 # None /\ f2 # None /\ f3 = None

\* third arm: (Some(_), Some(_), None, ..) if s.contains(':')
IsBlindingRequired(s, f1, f2, f3) ==
    f1 # None /\ f2 # None /\ f3 = None /\ contains(s, ":")

\* the pattern (Some(_), Some(_), Some(_), Some(_), None)
IsFourFields(f1, f2, f3, f4, f5) ==
    f1 # None /\ f2 # None /\ f3 # None /\ f4 # None /\ f5 = None

\* a fourth arm that is tried for explicit txids only
IsNonHexBlinding_TxidOnly(f1, f2, f3, f4, f5) ==
    /\ IsFourFields(f1, f2, f3, f4, f5)
    /\ f2 # Some(<<"~">>)
    /\ ~starts_with(f4.val, <<"0", "x">>)

\* fourth arm: four fields, if !blinding.starts_with("0x")
IsNonHexBlinding(f1, f2, f3, f4, f5) ==
    IsFourFields(f1, f2, f3, f4, f5) /\ ~starts_with(f4.val, <<"0", "x">>)

\* <BlindSeal as FromStr>::from_str: the match on the first five fields of
\* the split, the arms tried in the order written
BlindSeal_from_str(s) ==
    LET sp == split(s)
        f1 == next(sp, 1)
        f2 == next(sp, 2)
        f3 == next(sp, 3)
        f4 == next(sp, 4)
        f5 == next(sp, 5)
    IN IF IsMethodRequired(f1) THEN Err(ParseError("MethodRequired"))
       ELSE IF IsTxidRequired(f1, f2) THEN Err(ParseError("TxidRequired"))
       ELSE IF IsBlindingRequired(s, f1, f2, f3)
       THEN Err(ParseError("BlindingRequired"))
       ELSE IF IsNonHexBlinding(f1, f2, f3, f4, f5)
       THEN Err(ParseError("NonHexBlinding"))
       ELSE IF IsFourFields(f1, f2, f3, f4, f5) /\ f2 = Some(<<"~">>)
       THEN WitnessArm(f1.val, f3.val, f4.val)
       ELSE IF IsFourFields(f1, f2, f3, f4, f5)
       THEN TxidArm(f1.val, f2.val, f3.val, f4.val)
       ELSE Err(ParseError("WrongStructure"))

\* <BlindSeal as Display>::fmt
BlindSeal_fmt(sl) ==
    LET id == TxPtr_txid(sl.txid)
    IN Method_to_string(sl.method) \o <<":">>
       \o (IF id.tag = "Some" THEN Txid_to_string(id.val) ELSE <<"~">>) \o <<":">>
       \o Vout_to_string(sl.vout) \o <<"#">>
       \o FmtLowerHex(sl.blinding)

----------------------------------------------------------------------------
(* Constructors *)

\* BlindSeal::with_blinding, as used with an explicit txid
with_blinding(method, txid, vout, blinding) ==
    BlindSeal(method, TxPtrTxid(txid), vout, blinding)

\* BlindSeal::with_vout: a seal pointing to the witness transaction
with_vout(method, vout, blinding) == BlindSeal(method, WitnessTx, vout, blinding)

\* BlindSeal::<Txid>::with_blinding: the settled form holds the txid itself
with_blinding_txid(method, txid, vout, blinding) ==
    BlindSeal(method, txid, vout, blinding)

\* <BlindSeal as TxoSeal>::txid
BlindSeal_txid(sl) == TxPtr_txid(sl.txid)

\* a settled parse that takes a deferred witness for the all-zero txid
SingleBlindSeal_from_str_Unchecked(s) ==
    LET seal_ == BlindSeal_from_str(s)
    IN IF seal_.tag = "Err" THEN seal_
       ELSE Ok(with_blinding_txid(seal_.val.method,
                                  IF seal_.val.txid.tag = "Txid"
                                  THEN seal_.val.txid.id
                                  ELSE [i \in 1..TxidBytes |-> 0],
                                  seal_.val.vout, seal_.val.blinding))

\* <BlindSeal<Txid> as FromStr>::from_str
SingleBlindSeal_from_str(s) ==
    LET seal_ == BlindSeal_from_str(s)
    IN IF seal_.tag = "Err" THEN seal_
       ELSE LET txid == IF BlindSeal_txid(seal_.val) = None
                        THEN Err(ParseError("TxidRequired"))
                        ELSE Ok(BlindSeal_txid(seal_.val).val)
            IN IF txid.tag = "Err" THEN txid
               ELSE Ok(with_blinding_txid(seal_.val.method, txid.val,
                                          seal_.val.vout, seal_.val.blinding))

----------------------------------------------------------------------------
(* Seals and outpoints *)

\* Outpoint::new
Outpoint(txid, vout) == [txid |-> txid, vout |-> vout]

\* RngCore::next_u64: the generator is taken as the value it yields next
next_u64(rng) == rng

\* BlindSeal::with_rng
with_rng(method, txid, vout, rng) ==
    BlindSeal(method, TxPtrTxid(txid), vout, next_u64(rng))

\* BlindSeal::<Txid>::with_rng
with_rng_txid(method, txid, vout, rng) ==
    BlindSeal(method, txid, vout, next_u64(rng))

\* a constructor that picks the other method
tapret_first_Opret(txid, vout, rng) == with_rng("OpretFirst", txid, vout, rng)

\* BlindSeal::tapret_first, rng being what thread_rng() returns
tapret_first(txid, vout, rng) == with_rng("TapretFirst", txid, vout, rng)

\* BlindSeal::<Txid>::tapret_first
tapret_first_txid(txid, vout, rng) == with_rng_txid("TapretFirst", txid, vout, rng)

\* <BlindSeal as From<&Outpoint>>::from
BlindSeal_from_outpoint(outpoint, rng) ==
    tapret_first(outpoint.txid, outpoint.vout, rng)

\* <BlindSeal<Txid> as From<&Outpoint>>::from
SingleBlindSeal_from_outpoint(outpoint, rng) ==
    tapret_first_txid(outpoint.txid, outpoint.vout, rng)

WitnessVoutError == "WitnessVoutError"

\* SealTxid::map_to_outpoint for TxPtr
TxPtr_map_to_outpoint(p, vout) ==
    IF p.tag = "Txid" THEN Some(Outpoint(p.id, vout)) ELSE None

\* Option::ok_or
ok_or(opt, e) == IF opt.tag = "Some" THEN Ok(opt.val) ELSE Err(e)

\* a conversion that takes the witness transaction for the all-zero txid
Outpoint_try_from_ZeroTxid(reveal) ==
    Ok(Outpoint(IF reveal.txid.tag = "Txid" THEN reveal.txid.id
                ELSE [i \in 1..TxidBytes |-> 0],
                reveal.vout))

\* <Outpoint as TryFrom<&BlindSeal>>::try_from
Outpoint_try_from(reveal) ==
    ok_or(TxPtr_map_to_outpoint(reveal.txid, reveal.vout), WitnessVoutError)

\* <Outpoint as From<&BlindSeal<Txid>>>::from
Outpoint_from(reveal) == Outpoint(reveal.txid, reveal.vout)

\* BlindSeal::<Txid>::transmutate
transmutate(sl) == with_blinding(sl.method, sl.txid, sl.vout, sl.blinding)

----------------------------------------------------------------------------
(* Concealment *)

\* Method as its u8 tag
Method_into_u8(m) == IF m = "OpretFirst" THEN 0 ELSE 1

\* strict encoding of TxPtr: the variant tag, then the txid of the Txid variant
StrictEncode_TxPtr(p) == IF p.tag = "Txid" THEN <<1>> \o p.id ELSE <<0>>

\* strict encoding of Vout: u32, little-endian
StrictEncode_Vout(v) ==
    <<v[2] % 256, v[2] \div 256, v[1] % 256, v[1] \div 256>>

\* strict encoding of u64, little-endian
StrictEncode_u64(b) ==
    [j \in 1..(U64Nibbles \div 2) |->
        b[U64Nibbles - 2 * j + 1] * 16 + b[U64Nibbles - 2 * j + 2]]

\* an encoding that leaves the txid field out
StrictEncode_BlindSeal_NoTxid(sl) ==
    <<Method_into_u8(sl.method)>> \o StrictEncode_Vout(sl.vout)
        \o StrictEncode_u64(sl.blinding)

\* derived StrictEncode of BlindSeal: the fields in declaration order
StrictEncode_BlindSeal(sl) ==
    <<Method_into_u8(sl.method)>> \o StrictEncode_TxPtr(sl.txid)
        \o StrictEncode_Vout(sl.vout) \o StrictEncode_u64(sl.blinding)

\* Bytes32::commit: the hash commitment, collision-free over the encodings
Bytes32_commit(bytes) == [commit |-> bytes]

\* <SecretSeal as CommitVerify<BlindSeal, Lnpbp12>>::commit
SecretSeal_commit(reveal) == Bytes32_commit(StrictEncode_BlindSeal(reveal))

\* <BlindSeal as Conceal>::conceal
conceal(sl) == SecretSeal_commit(sl)

----------------------------------------------------------------------------
(* The tapret commitment script *)

TAPRET_SCRIPT_COMMITMENT_PREFIX ==
    <<80, 80, 80, 80, 80, 80, 80, 80, 80, 80, 80, 80,
      80, 80, 80, 80, 80, 80, 80, 80, 80, 80, 80, 80,
      80, 80, 80, 80, 80, 80, 106, 32>>

OP_RESERVED == 80

OP_RETURN == 106

OP_PUSHDATA1 == 76

\* the number of turns of the filling loop
ReservedCount == 30

\* a MultiCommitment holding the 32 bytes of its hash
MultiCommitment(bytes) == [inner |-> bytes]

\* MultiCommitment::commit_serialize
commit_serialize(msg) == msg.inner

\* script::Builder::push_opcode
push_opcode(builder, op) == Append(builder, op)

\* script::Builder::push_slice, for data shorter than 256 bytes
push_slice(builder, data) ==
    builder
        \o (IF Len(data) < OP_PUSHDATA1 THEN <<Len(data)>>
            ELSE <<OP_PUSHDATA1, Len(data)>>)
        \o data

\* the builder after n turns of the loop pushing OP_RESERVED
ReservedFill(n) == [i \in 1..n |-> OP_RESERVED]

\* a builder whose loop stops one turn early
TapScript_commit_OneShort(msg) ==
    push_slice(push_opcode(ReservedFill(ReservedCount - 1), OP_RETURN),
               commit_serialize(msg))

\* <TapScript as CommitVerify<MultiCommitment, Lnpbp6>>::commit
TapScript_commit(msg) ==
    push_slice(push_opcode(ReservedFill(ReservedCount), OP_RETURN),
               commit_serialize(msg))

----------------------------------------------------------------------------
(* The channel id *)

\* u8 ^ u8
BitXor8(a, b) ==
    LET x[k \in 0..8] ==
            IF k = 0 THEN 0
            ELSE x[k - 1]
                 + (((a \div 2^(k - 1)) + (b \div 2^(k - 1))) % 2) * 2^(k - 1)
    IN x[8]

\* u32::to_be_bytes of a vout held as two 16-bit limbs
to_be_bytes(vout) ==
    <<vout[1] \div 256, vout[1] % 256, vout[2] \div 256, vout[2] % 256>>

\* ChannelId::with; the indices 30 and 31 of the code count from 0
ChannelId_with(funding_outpoint) ==
    LET slice == funding_outpoint.txid
        vout == to_be_bytes(funding_outpoint.vout)
    IN [slice EXCEPT ![31] = BitXor8(slice[31], vout[1]),
                     ![32] = BitXor8(slice[32], vout[2])]

----------------------------------------------------------------------------
(* The values and strings the operations are applied to *)

TestTxidHex ==
    <<"6", "4", "6", "c", "a", "5", "c", "1", "0", "6", "2", "6", "1", "9", "e", "2",
      "a", "2", "d", "6", "0", "7", "7", "1", "c", "9", "d", "f", "d", "8", "2", "0",
      "5", "5", "1", "f", "b", "7", "7", "3", "e", "4", "d", "c", "8", "c", "4", "e",
      "d", "6", "7", "9", "6", "5", "a", "8", "d", "1", "f", "a", "e", "8", "3", "9">>

TestTxid ==
    <<100, 108, 165, 193, 6, 38, 25, 226, 162, 214, 7, 113, 201, 223, 216, 32,
      85, 31, 183, 115, 228, 220, 140, 78, 214, 121, 101, 168, 209, 250, 232, 57>>

Txids == {TestTxid, [i \in 1..TxidBytes |-> 0], [i \in 1..TxidBytes |-> 255]}

\* 0, 21, 65535, 65536 and u32::MAX
Vouts == {<<0, 0>>, <<0, 21>>, <<0, 65535>>, <<1, 0>>, <<65535, 65535>>}

\* 0, 0x12, 0xfffffff, 0x12345678, 0x31bbed7e7b2d (54683213134637),
\* 0x1000000000000 (2^48) and u64::MAX
Blindings ==
    { Zeros(16),
      Zeros(14) \o <<1, 2>>,
      Zeros(9) \o <<15, 15, 15, 15, 15, 15, 15>>,
      Zeros(8) \o <<1, 2, 3, 4, 5, 6, 7, 8>>,
      Zeros(4) \o <<3, 1, 11, 11, 14, 13, 7, 14, 7, 11, 2, 13>>,
      Zeros(3) \o <<1>> \o Zeros(12),
      <<15, 15, 15, 15, 15, 15, 15, 15, 15, 15, 15, 15, 15, 15, 15, 15>> }

MethodTexts ==
    { <<>>, <<"~">>,
      <<"t", "a", "p", "r", "e", "t", "1", "s", "t">>,
      <<"O", "p", "R", "e", "t", "1", "s", "t">>,
      <<"T", "a", "p", "r", "e", "t">> }

\* 32-byte commitments: zeros, 0xff, the bytes of the script prefix itself,
\* the test hash and a run of distinct bytes
Commitments ==
    { MultiCommitment(b) :
        b \in { [i \in 1..32 |-> 0], [i \in 1..32 |-> 255],
                TAPRET_SCRIPT_COMMITMENT_PREFIX, TestTxid,
                [i \in 1..32 |-> 8 * i - 1] } }

\* output indices of a funding transaction: 0, 1, 21, 256, 65535 and, past
\* 16 bits, 65536, 2^24 and u32::MAX
FundingVouts ==
    {<<0, 0>>, <<0, 1>>, <<0, 21>>, <<0, 256>>, <<0, 65535>>,
     <<1, 0>>, <<256, 0>>, <<65535, 65535>>}

\* texts given to Method::from_str on their own
MethodInputs ==
    MethodTexts \cup
    { <<"o", "p", "r", "e", "t", "1", "s", "t">>,
      <<"T", "A", "P", "R", "E", "T", "1", "S", "T">>,
      <<"o", "p", "r", "e", "t">>,
      <<"t", "a", "p", "r", "e", "t", "1", "s">>,
      <<"a", "p", "r", "e", "t", "1", "s", "t">>,
      <<"t", "a", "p", "r", "e", "t", "1", "s", "t", " ">>,
      <<" ", "O", "p", "r", "e", "t", "1", "s", "t">>,
      <<"T", "a", "p", "R", "e", "t", "1", "s", "t", "X">>,
      <<"o", "p", "r", "e", "t", "1", "s", "t", "t", "a", "p", "r", "e", "t", "1", "s", "t">> }

TxidTexts ==
    { <<>>, <<"~">>, TestTxidHex, Tail(TestTxidHex) }

VoutTexts ==
    { <<>>, <<"5">>, <<"-", "5">>, <<"0", "x", "7", "6", "5">>,
      <<"4", "2", "9", "4", "9", "6", "7", "2", "9", "5">>,
      <<"4", "2", "9", "4", "9", "6", "7", "2", "9", "6">> }

BlindingTexts ==
    { <<>>,
      <<"7", "8", "c", "a", "9", "5">>,
      <<"0", "x">>,
      <<"0", "x", "7", "8", "c", "s">>,
      <<"0", "x", "0", "x", "1", "2">>,
      <<"0", "x", "+", "5">>,
      <<"0", "x", "1", "2">>,
      <<"0", "x", "3", "1", "B", "b", "e", "d", "7", "e", "7", "b", "2", "d">>,
      <<"0", "x", "f", "f", "f", "f", "f", "f", "f", "f",
        "f", "f", "f", "f", "f", "f", "f", "f">>,
      <<"0", "x", "1", "0", "0", "0", "0", "0", "0", "0", "0",
        "0", "0", "0", "0", "0", "0", "0", "0">> }

Separators == {<<":">>, <<"#">>}

\* how many fields an input may have beyond the four of the grammar
MaxExtra == 2

RECURSIVE Extra(_)
Extra(k) ==
    IF k <= 0 THEN <<>>
    ELSE Extra(k - 1) \o (IF k % 2 = 1 THEN <<":", "7">> ELSE <<"#">>)

\* the first n of the fields m, t, v, b joined by the separators s1, s2, s3,
\* followed by k further fields, "7" after ':' and an empty one after '#'
\* in turn
InputText(n, m, t, v, b, s1, s2, s3, k) ==
    m \o (IF n >= 2 THEN s1 \o t ELSE <<>>)
      \o (IF n >= 3 THEN s2 \o v ELSE <<>>)
      \o (IF n >= 4 THEN s3 \o b \o Extra(k) ELSE <<>>)

----------------------------------------------------------------------------
(* The state machine: seals are constructed and formatted, strings are     *)
(* supplied and parsed.                                                    *)

Init ==
    /\ seal = None
    /\ text = <<>>
    /\ src = "none"
    /\ res = None
    /\ single = None
    /\ arg = None
    /\ out = None

\* nothing is held: no seal, no string, no argument, no result
Idle == seal = None /\ src = "none" /\ single = None /\ arg = None /\ out = None

\* BlindSeal::with_blinding(method, txid, vout, blinding)
NewSeal ==
    /\ Idle
    /\ \E m \in Methods, t \in Txids, v \in Vouts, b \in Blindings :
        /\ seal' = Some(with_blinding(m, t, v, b))
        /\ text' = <<>>
        /\ src' = "none"
        /\ res' = None
        /\ UNCHANGED <<single, arg, out>>

\* BlindSeal::with_vout(method, vout, blinding)
NewWitnessSeal ==
    /\ Idle
    /\ \E m \in Methods, v \in Vouts, b \in Blindings :
        /\ seal' = Some(with_vout(m, v, b))
        /\ text' = <<>>
        /\ src' = "none"
        /\ res' = None
        /\ UNCHANGED <<single, arg, out>>

\* seal.to_string()
SealToString ==
    /\ seal # None
    /\ text' = BlindSeal_fmt(seal.val)
    /\ src' = "to_string"
    /\ res' = None
    /\ UNCHANGED <<seal, single, arg, out>>

\* a string arrives from outside
Input ==
    /\ Idle
    /\ \E n \in 1..4, m \in MethodTexts, t \in TxidTexts, v \in VoutTexts,
       b \in BlindingTexts, s1 \in Separators, s2 \in Separators,
       s3 \in Separators, k \in 0..MaxExtra :
        /\ text' = InputText(n, m, t, v, b, s1, s2, s3, k)
        /\ src' = "input"
        /\ seal' = None
        /\ res' = None
        /\ UNCHANGED <<single, arg, out>>

\* ChainBlindSeal::from_str(&text)
Parse ==
    /\ src # "none"
    /\ res = None
    /\ res' = Some(BlindSeal_from_str(text))
    /\ UNCHANGED <<seal, text, src, single, arg, out>>

\* BlindSeal::<Txid>::with_blinding(method, txid, vout, blinding)
NewSingleSeal ==
    /\ Idle
    /\ \E m \in Methods, t \in Txids, v \in Vouts, b \in Blindings :
        /\ single' = Some(with_blinding_txid(m, t, v, b))
        /\ UNCHANGED <<seal, text, src, res, arg, out>>

\* single.transmutate()
Transmutate ==
    /\ single # None
    /\ seal = None
    /\ out = None
    /\ seal' = Some(transmutate(single.val))
    /\ UNCHANGED <<text, src, res, single, arg, out>>

\* Outpoint::try_from(&seal)
ToOutpoint ==
    /\ seal # None
    /\ src = "none"
    /\ out = None
    /\ out' = Some([op |-> "Outpoint::try_from", val |-> Outpoint_try_from(seal.val)])
    /\ UNCHANGED <<seal, text, src, res, single, arg>>

\* Outpoint::from(&single)
SingleToOutpoint ==
    /\ single # None
    /\ seal = None
    /\ out = None
    /\ out' = Some([op |-> "Outpoint::from", val |-> Outpoint_from(single.val)])
    /\ UNCHANGED <<seal, text, src, res, single, arg>>

\* Method::from_str(s)
MethodFromStr ==
    /\ Idle
    /\ \E s \in MethodInputs :
        /\ arg' = Some(s)
        /\ out' = Some([op |-> "Method::from_str", val |-> Method_from_str(s)])
        /\ UNCHANGED <<seal, text, src, res, single>>

\* Method::from_str(&m.to_string())
MethodRoundTrip ==
    /\ Idle
    /\ \E m \in Methods :
        /\ arg' = Some(m)
        /\ out' = Some([op |-> "Method::to_string",
                        val |-> Method_from_str(Method_to_string(m))])
        /\ UNCHANGED <<seal, text, src, res, single>>

\* TapScript::commit(&msg)
TapretCommit ==
    /\ Idle
    /\ \E msg \in Commitments :
        /\ arg' = Some(msg)
        /\ out' = Some([op |-> "TapScript::commit", val |-> TapScript_commit(msg)])
        /\ UNCHANGED <<seal, text, src, res, single>>

\* BlindSeal::<Txid>::from_str(&text), after the parse into BlindSeal<TxPtr>
ParseSingle ==
    /\ src # "none"
    /\ res # None
    /\ out = None
    /\ out' = Some([op |-> "BlindSeal<Txid>::from_str",
                    val |-> SingleBlindSeal_from_str(text)])
    /\ UNCHANGED <<seal, text, src, res, single, arg>>

\* BlindSeal::from(&outpoint); thread_rng() yields any u64
FromOutpoint ==
    /\ Idle
    /\ \E t \in Txids, v \in Vouts, rng \in Blindings :
        /\ arg' = Some([outpoint |-> Outpoint(t, v), rng |-> rng])
        /\ seal' = Some(BlindSeal_from_outpoint(Outpoint(t, v), rng))
        /\ UNCHANGED <<text, src, res, single, out>>

\* BlindSeal::<Txid>::from(&outpoint)
SingleFromOutpoint ==
    /\ Idle
    /\ \E t \in Txids, v \in Vouts, rng \in Blindings :
        /\ arg' = Some([outpoint |-> Outpoint(t, v), rng |-> rng])
        /\ single' = Some(SingleBlindSeal_from_outpoint(Outpoint(t, v), rng))
        /\ UNCHANGED <<seal, text, src, res, out>>

\* ChannelId::with(funding_outpoint)
ChannelIdWith ==
    /\ Idle
    /\ \E t \in Txids, v \in FundingVouts :
        /\ arg' = Some(Outpoint(t, v))
        /\ out' = Some([op |-> "ChannelId::with",
                        val |-> ChannelId_with(Outpoint(t, v))])
        /\ UNCHANGED <<seal, text, src, res, single>>

\* seal.conceal()
Conceal ==
    /\ seal # None
    /\ src = "none"
    /\ out = None
    /\ out' = Some([op |-> "conceal", val |-> conceal(seal.val)])
    /\ UNCHANGED <<seal, text, src, res, single, arg>>

\* the values at hand go out of scope
Drop ==
    /\ ~Idle
    /\ seal' = None
    /\ text' = <<>>
    /\ src' = "none"
    /\ res' = None
    /\ single' = None
    /\ arg' = None
    /\ out' = None

Next ==
    \/ NewSeal \/ NewWitnessSeal \/ SealToString \/ Input \/ Parse
    \/ NewSingleSeal \/ Transmutate \/ ToOutpoint \/ SingleToOutpoint
    \/ Conceal \/ MethodFromStr \/ MethodRoundTrip \/ TapretCommit
    \/ ParseSingle \/ FromOutpoint \/ SingleFromOutpoint \/ ChannelIdWith
    \/ Drop

Spec == Init /\ [][Next]_vars

----------------------------------------------------------------------------
(* What the properties read off a state, and the notions they are stated   *)
(* in.  These are written from the grammar, not from the parser.           *)

Parsed == res # None

\* the fields of the string at hand: the texts between ':' and '#'
Fields == split(text)
NumFields == Len(Fields)

\* the separators of the string at hand, in order
SeparatorsOf(s) == SelectSeq(s, LAMBDA c : c \in {":", "#"})

Prefix0x == <<"0", "x">>

HexDigitChars == {HexLower[i] : i \in 1..16} \cup {HexUpper[i] : i \in 1..16}
DecDigitChars == {HexLower[i] : i \in 1..10}

IsHexText(f) == Len(f) > 0 /\ \A i \in 1..Len(f) : f[i] \in HexDigitChars
IsDecText(f) == Len(f) > 0 /\ \A i \in 1..Len(f) : f[i] \in DecDigitChars

\* the digit values of a text of hex digits, leading zeros dropped
Significant(f) ==
    StripZeros([i \in 1..Len(f) |->
        IF IndexOf(HexLower, f[i]) > 0 THEN IndexOf(HexLower, f[i]) - 1
        ELSE IndexOf(HexUpper, f[i]) - 1])

FitsU64(f) == Len(Significant(f)) <= 16
HexTextValue(f) == Zeros(16 - Len(Significant(f))) \o Significant(f)

\* a decimal text not above 4294967295
FitsU32(f) ==
    LET z == Significant(f)
        max == <<4, 2, 9, 4, 9, 6, 7, 2, 9, 5>>
    IN \/ Len(z) < 10
       \/ /\ Len(z) = 10
          /\ \/ z = max
             \/ \E i \in 1..10 : z[i] < max[i] /\ \A j \in 1..(i - 1) : z[j] = max[j]

RecognisedMethod(f) ==
    to_lowercase(f) \in { <<"o", "p", "r", "e", "t", "1", "s", "t">>,
                          <<"t", "a", "p", "r", "e", "t", "1", "s", "t">> }

NoMethod(f) == f = <<>> \/ f = <<"~">>

ValidTxidText(f) == f = <<"~">> \/ (Len(f) = 64 /\ IsHexText(f))

ValidVoutText(f) == IsDecText(f) /\ FitsU32(f)

\* a blinding text as the grammar has it: one "0x", then hex digits that
\* fit 64 bits
GrammarBlinding(f) ==
    /\ starts_with(f, Prefix0x)
    /\ IsHexText(SubSeq(f, 3, Len(f)))
    /\ FitsU64(SubSeq(f, 3, Len(f)))

\* a blinding text the parser reads: every leading "0x" and one '+' dropped,
\* the rest hex digits that fit 64 bits
ReadableBlinding(f) ==
    LET r == trim_start_matches(f, Prefix0x)
        d == IF Len(r) > 0 /\ r[1] = "+" THEN Tail(r) ELSE r
    IN IsHexText(d) /\ FitsU64(d)

ParseErr(kind) == Err(ParseError(kind))

\* a four-field string with a recognised method, a non-empty txid field and
\* a blinding field that starts with "0x" has been parsed
ParsedFourFields ==
    /\ Parsed
    /\ NumFields = 4
    /\ RecognisedMethod(Fields[1])
    /\ Fields[2] # <<>>
    /\ starts_with(Fields[4], Prefix0x)

BadTxid == ~ValidTxidText(Fields[2])
BadVout == ~ValidVoutText(Fields[3])
BadBlinding == ~ReadableBlinding(Fields[4])
SeveralBad == (BadTxid /\ BadVout) \/ (BadTxid /\ BadBlinding) \/ (BadVout /\ BadBlinding)

----------------------------------------------------------------------------
(* Properties of the textual codec *)

\* C1: parsing the string a seal formats to returns Ok with a seal equal to
\* the original in method, txid, vout and blinding, and formatting the parsed
\* seal gives the string back.
C1_RoundTrip ==
    (src = "to_string" /\ Parsed) =>
        /\ res.val = Ok(seal.val)
        /\ BlindSeal_fmt(res.val.val) = text

\* a seal with an explicit txid and the blinding u64::MAX has made the trip
C1_Witness ==
    /\ src = "to_string"
    /\ res = Some(Ok(seal.val))
    /\ seal.val.txid = TxPtrTxid(TestTxid)
    /\ seal.val.vout = <<65535, 65535>>
    /\ seal.val.blinding = [i \in 1..16 |-> 15]

\* C2, as claimed: the blinding of a formatted seal is "0x" and exactly 12
\* lowercase hex digits, whatever the value.
C2_TwelveDigits ==
    src = "to_string" =>
        /\ Len(Fields[4]) = 14
        /\ starts_with(Fields[4], Prefix0x)
        /\ \A i \in 3..Len(Fields[4]) : IndexOf(HexLower, Fields[4][i]) > 0

\* C2, amended: the blinding of a formatted seal is "0x" and the lowercase
\* hex digits of the value, zero-padded on the left to 8 digits; a value that
\* needs more than 8 digits is written in full, with 9 to 16 digits and no
\* padding.
C2_PaddedToEight ==
    src = "to_string" =>
        LET ds == SubSeq(Fields[4], 3, Len(Fields[4]))
        IN /\ starts_with(Fields[4], Prefix0x)
           /\ Len(ds) >= 8 /\ Len(ds) <= 16
           /\ \A i \in 1..Len(ds) : IndexOf(HexLower, ds[i]) > 0
           /\ Len(ds) > 8 => ds[1] # "0"
           /\ HexTextValue(ds) = seal.val.blinding

\* the value 2^48 has been formatted, with 13 digits
C2_Witness ==
    /\ src = "to_string"
    /\ seal.val.blinding = Zeros(3) \o <<1>> \o Zeros(12)
    /\ Len(Fields[4]) = 15

\* C3: the parser returns Ok only for strings whose separators are ':', ':'
\* and '#', in this order.
C3_GrammarSeparators ==
    (Parsed /\ res.val.tag = "Ok") => SeparatorsOf(text) = <<":", ":", "#">>

\* C4, as claimed: with several of txid, vout and blinding invalid, a
\* malformed txid is reported first, then an invalid vout, then an invalid
\* blinding.
C4_ListedPriority ==
    (ParsedFourFields /\ SeveralBad) =>
        res.val = ParseErr(IF BadTxid THEN "WrongTxid"
                           ELSE IF BadVout THEN "WrongVout"
                           ELSE "WrongBlinding")

\* C4, amended: with several of txid, vout and blinding invalid, a blinding
\* the parser cannot read is reported first, then a malformed txid, then an
\* invalid vout.
C4_BlindingFirst ==
    (ParsedFourFields /\ SeveralBad) =>
        res.val = ParseErr(IF BadBlinding THEN "WrongBlinding"
                           ELSE IF BadTxid THEN "WrongTxid"
                           ELSE "WrongVout")

\* txid, vout and blinding are all invalid and WrongBlinding is reported
C4_Witness ==
    /\ ParsedFourFields
    /\ BadTxid /\ BadVout /\ BadBlinding
    /\ res.val = ParseErr("WrongBlinding")

\* C5: with method, txid and vout valid, a blinding field starting with "0x"
\* is accepted only if what follows that one prefix is a non-empty text of
\* hex digits that fits 64 bits, and the blinding is then its value; anything
\* else gives WrongBlinding.
C5_SinglePrefix ==
    (ParsedFourFields /\ ~BadTxid /\ ~BadVout) =>
        IF GrammarBlinding(Fields[4])
        THEN /\ res.val.tag = "Ok"
             /\ res.val.val.blinding = HexTextValue(SubSeq(Fields[4], 3, Len(Fields[4])))
        ELSE res.val = ParseErr("WrongBlinding")

\* C6: four fields, the first neither empty nor "~", the second not empty,
\* the fourth not starting with "0x": the result is NonHexBlinding, whatever
\* the first three fields hold.
C6_NonHexBlinding ==
    ( /\ Parsed
      /\ NumFields = 4
      /\ ~NoMethod(Fields[1])
      /\ Fields[2] # <<>>
      /\ ~starts_with(Fields[4], Prefix0x) ) =>
        res.val = ParseErr("NonHexBlinding")

\* method, txid and vout are all invalid and NonHexBlinding is reported
C6_Witness ==
    /\ Parsed
    /\ NumFields = 4
    /\ ~NoMethod(Fields[1]) /\ ~RecognisedMethod(Fields[1])
    /\ Fields[2] # <<>> /\ BadTxid /\ BadVout
    /\ res.val = ParseErr("NonHexBlinding")

\* what C7 is about: four fields, the txid field not empty, the blinding
\* field starting with "0x", the method text not recognised
ParsedUnrecognised ==
    /\ Parsed
    /\ NumFields = 4
    /\ Fields[2] # <<>>
    /\ starts_with(Fields[4], Prefix0x)
    /\ ~RecognisedMethod(Fields[1])

\* C7, as claimed: every unrecognised method text gives WrongMethod carrying
\* the text as written.
C7_AnyUnrecognised ==
    ParsedUnrecognised => res.val = Err(WrongMethod(Fields[1]))

\* C7, amended: an unrecognised method text that is neither empty nor "~"
\* gives WrongMethod carrying the text as written, ahead of any error of the
\* txid, vout or blinding.
C7_WrongMethod ==
    (ParsedUnrecognised /\ ~NoMethod(Fields[1])) =>
        res.val = Err(WrongMethod(Fields[1]))

\* a method text with a capital letter, next to an invalid txid, vout and
\* blinding, is reported as written
C7_Witness ==
    /\ ParsedUnrecognised
    /\ to_lowercase(Fields[1]) # Fields[1]
    /\ BadTxid /\ BadVout /\ BadBlinding
    /\ res.val = Err(WrongMethod(Fields[1]))

\* C8: a first field that is empty or "~" gives MethodRequired, however many
\* fields follow and whatever they hold.
C8_MethodRequired ==
    (Parsed /\ NoMethod(Fields[1])) => res.val = ParseErr("MethodRequired")

\* "~" followed by five more fields has been parsed
C8_Witness ==
    /\ Parsed
    /\ Fields[1] = <<"~">>
    /\ NumFields = 6
    /\ res.val = ParseErr("MethodRequired")

\* C9: with a first field neither empty nor "~" and a second field, if any,
\* not empty: two fields give BlindingRequired if the string has a ':' and
\* WrongStructure if not; one, three, five or more fields give WrongStructure.
C9_FieldCount ==
    ( /\ Parsed
      /\ ~NoMethod(Fields[1])
      /\ NumFields >= 2 => Fields[2] # <<>>
      /\ NumFields # 4 ) =>
        res.val = ParseErr(IF NumFields = 2 /\ contains(text, ":")
                           THEN "BlindingRequired"
                           ELSE "WrongStructure")

\* two fields joined by '#' have been parsed
C9_Witness ==
    /\ Parsed
    /\ NumFields = 2
    /\ ~NoMethod(Fields[1]) /\ Fields[2] # <<>>
    /\ ~contains(text, ":")
    /\ res.val = ParseErr("WrongStructure")

\* C10: with the method recognised and the txid and blinding valid, the vout
\* field is accepted only if it is a text of decimal digits whose value fits
\* the output index; any other vout field gives WrongVout.
C10_Vout ==
    (ParsedFourFields /\ ~BadTxid /\ ~BadBlinding) =>
        IF ValidVoutText(Fields[3])
        THEN /\ res.val.tag = "Ok"
             /\ FitsU32(Vout_to_string(res.val.val.vout))
             /\ Significant(Vout_to_string(res.val.val.vout)) = Significant(Fields[3])
        ELSE res.val = ParseErr("WrongVout")

\* an empty vout field next to an explicit txid has given WrongVout
C10_Witness ==
    /\ ParsedFourFields /\ ~BadTxid /\ ~BadBlinding
    /\ Fields[2] # <<"~">>
    /\ Fields[3] = <<>>
    /\ res.val = ParseErr("WrongVout")

----------------------------------------------------------------------------
(* Properties of the conversions *)

\* the last conversion was op
Did(op) == out # None /\ out.val.op = op

\* C11: converting a seal to an Outpoint fails with WitnessVoutError exactly
\* when the witness is deferred; a settled seal (T, V) converts to
\* Outpoint(T, V); transmutation keeps method, txid, vout and blinding, and
\* the transmuted seal converts to the same Outpoint(T, V).
C11_ToOutpoint ==
    /\ Did("Outpoint::try_from") =>
        IF seal.val.txid = WitnessTx
        THEN out.val.val = Err(WitnessVoutError)
        ELSE out.val.val = Ok(Outpoint(seal.val.txid.id, seal.val.vout))
    /\ Did("Outpoint::from") =>
        out.val.val = Outpoint(single.val.txid, single.val.vout)
    /\ (single # None /\ seal # None) =>
        /\ seal.val.method = single.val.method
        /\ seal.val.txid = TxPtrTxid(single.val.txid)
        /\ seal.val.vout = single.val.vout
        /\ seal.val.blinding = single.val.blinding
    /\ (single # None /\ Did("Outpoint::try_from")) =>
        out.val.val = Ok(Outpoint_from(single.val))

\* a settled seal has been transmuted and converted to its outpoint
C11_Witness ==
    /\ single # None
    /\ seal # None
    /\ Did("Outpoint::try_from")
    /\ out.val.val = Ok(Outpoint(TestTxid, <<1, 0>>))

\* the seal with the same method, vout and blinding and the txid p
WithTxPtr(sl, p) == BlindSeal(sl.method, p, sl.vout, sl.blinding)

\* C12: a deferred seal and a seal with an explicit txid that have the same
\* method, vout and blinding conceal to different SecretSeal values, for
\* every method, vout, blinding and txid.
C12_DeferredConcealsApart ==
    Did("conceal") =>
        IF seal.val.txid = WitnessTx
        THEN \A t \in Txids :
                out.val.val # conceal(WithTxPtr(seal.val, TxPtrTxid(t)))
        ELSE out.val.val # conceal(WithTxPtr(seal.val, WitnessTx))

\* a deferred seal has been concealed
C12_Witness ==
    /\ Did("conceal")
    /\ seal.val.txid = WitnessTx
    /\ seal.val.vout = <<1, 0>>
    /\ out.val.val = conceal(with_vout("TapretFirst", <<1, 0>>, Zeros(16)))

\* s and the lowercase name are equal up to the case of the letters
EqualIgnoringCase(s, name) ==
    /\ Len(s) = Len(name)
    /\ \A i \in 1..Len(name) :
        \/ s[i] = name[i]
        \/ /\ IndexOf(LowerChars, name[i]) > 0
           /\ s[i] = UpperChars[IndexOf(LowerChars, name[i])]

IsOpret1st(s) == EqualIgnoringCase(s, <<"o", "p", "r", "e", "t", "1", "s", "t">>)

IsTapret1st(s) == EqualIgnoringCase(s, <<"t", "a", "p", "r", "e", "t", "1", "s", "t">>)

\* C14: Method parsing succeeds exactly for the texts that equal "opret1st"
\* (giving OpretFirst) or "tapret1st" (giving TapretFirst) up to case; every
\* other text, a proper prefix, the empty text and text with extra
\* characters included, fails with MethodParseError carrying the text
\* unchanged; and parsing the display of a method gives the method back.
C14_MethodFromStr ==
    /\ Did("Method::from_str") =>
        /\ IsOpret1st(arg.val) <=> out.val.val = Ok("OpretFirst")
        /\ IsTapret1st(arg.val) <=> out.val.val = Ok("TapretFirst")
        /\ out.val.val.tag = "Ok" <=> (IsOpret1st(arg.val) \/ IsTapret1st(arg.val))
        /\ out.val.val.tag = "Err" => out.val.val.err = arg.val
    /\ Did("Method::to_string") => out.val.val = Ok(arg.val)

\* the proper prefix "Tapret" has been refused with its text as given
C14_Witness ==
    /\ Did("Method::from_str")
    /\ arg.val = <<"T", "a", "p", "r", "e", "t">>
    /\ out.val.val = Err(<<"T", "a", "p", "r", "e", "t">>)

\* C15: for any 32-byte commitment C the tapret script is exactly 64 bytes:
\* 30 bytes 0x50, then 0x6a, then 0x20, then the 32 bytes of C; its first 32
\* bytes are TAPRET_SCRIPT_COMMITMENT_PREFIX and its last 32 bytes are C.
C15_TapretScript ==
    Did("TapScript::commit") =>
        LET script == out.val.val
            C == arg.val.inner
        IN /\ Len(C) = 32
           /\ Len(script) = 64
           /\ \A i \in 1..30 : script[i] = 80
           /\ script[31] = 106
           /\ script[32] = 32
           /\ \A i \in 1..32 : script[32 + i] = C[i]
           /\ SubSeq(script, 1, 32) = TAPRET_SCRIPT_COMMITMENT_PREFIX
           /\ SubSeq(script, 33, 64) = C

\* the script of the test hash has been built
C15_Witness ==
    /\ Did("TapScript::commit")
    /\ arg.val = MultiCommitment(TestTxid)
    /\ Len(out.val.val) = 64
    /\ out.val.val[64] = 57

\* C16: parsing a string into BlindSeal<Txid> returns Ok exactly when parsing
\* it into BlindSeal<TxPtr> returns Ok with an explicit txid, and then gives
\* the same method, txid, vout and blinding; when the BlindSeal<TxPtr> parse
\* returns Ok with a deferred witness, the BlindSeal<Txid> parse fails with
\* TxidRequired; when the BlindSeal<TxPtr> parse fails, the BlindSeal<Txid>
\* parse fails with the same error.
C16_SettledParse ==
    (Did("BlindSeal<Txid>::from_str") /\ res # None) =>
        LET deferred == res.val
            settled == out.val.val
        IN /\ settled.tag = "Ok" <=>
                (deferred.tag = "Ok" /\ deferred.val.txid # WitnessTx)
           /\ settled.tag = "Ok" =>
                /\ settled.val.method = deferred.val.method
                /\ TxPtrTxid(settled.val.txid) = deferred.val.txid
                /\ settled.val.vout = deferred.val.vout
                /\ settled.val.blinding = deferred.val.blinding
           /\ (deferred.tag = "Ok" /\ deferred.val.txid = WitnessTx) =>
                (settled.tag = "Err" /\ settled.err = [kind |-> "TxidRequired", text |-> <<>>])
           /\ deferred.tag = "Err" => settled = deferred

\* a string with a "~" txid field has been parsed into both forms
C16_Witness ==
    /\ Did("BlindSeal<Txid>::from_str")
    /\ res # None
    /\ src = "input"
    /\ res.val.tag = "Ok"
    /\ res.val.val.txid = WitnessTx
    /\ out.val.val.tag = "Err"

\* C17: converting an Outpoint (T, V) into a seal gives the method
\* TapretFirst, the explicit txid T, the vout V and the blinding the random
\* source yields; it never gives OpretFirst or a deferred witness; and
\* converting the seal back gives Outpoint (T, V).
C17_FromOutpoint ==
    /\ (arg # None /\ seal # None) =>
        /\ seal.val.method = "TapretFirst"
        /\ seal.val.method # "OpretFirst"
        /\ seal.val.txid = TxPtrTxid(arg.val.outpoint.txid)
        /\ seal.val.txid # WitnessTx
        /\ seal.val.vout = arg.val.outpoint.vout
        /\ seal.val.blinding = arg.val.rng
        /\ Did("Outpoint::try_from") =>
            out.val.val = Ok(Outpoint(arg.val.outpoint.txid, arg.val.outpoint.vout))
    /\ (arg # None /\ single # None) =>
        /\ single.val.method = "TapretFirst"
        /\ single.val.txid = arg.val.outpoint.txid
        /\ single.val.vout = arg.val.outpoint.vout
        /\ single.val.blinding = arg.val.rng
        /\ Did("Outpoint::from") =>
            out.val.val = Outpoint(arg.val.outpoint.txid, arg.val.outpoint.vout)

\* an outpoint has been made a seal and the seal an outpoint again
C17_Witness ==
    /\ arg # None
    /\ seal # None
    /\ single = None
    /\ arg.val.outpoint = Outpoint(TestTxid, <<0, 21>>)
    /\ seal.val.blinding = Zeros(14) \o <<1, 2>>
    /\ Did("Outpoint::try_from")
    /\ out.val.val = Ok(Outpoint(TestTxid, <<0, 21>>))

\* C18: ChannelId::with returns the 32 bytes of the funding txid with bytes
\* 30 and 31 XORed with the big-endian 16-bit output index and all other
\* bytes unchanged, so two funding outpoints of one transaction with
\* different output indices below 2^16 get different channel ids.
C18_XorOutputIndex ==
    (Did("ChannelId::with") /\ arg.val.vout[1] = 0) =>
        LET id == out.val.val
            txid == arg.val.txid
            index == arg.val.vout[2]
        IN /\ Len(id) = 32
           /\ \A i \in 1..30 : id[i] = txid[i]
           /\ id[31] = BitXor8(txid[31], index \div 256)
           /\ id[32] = BitXor8(txid[32], index % 256)
           /\ \A other \in FundingVouts :
                (other[1] = 0 /\ other[2] # index) =>
                    ChannelId_with(Outpoint(txid, other)) # id

====
